---- MODULE Spec2Model ----
(***************************************************************************)
(* Model of mdtopdf.py: the command line interface cli(args) and the       *)
(* conversion pipeline md_to_pdf (md_to_html, html_to_pdf, os.remove).     *)
(* Strings are sequences of one-character strings, so that arg[0],         *)
(* file_path[-3:] and output_file[:-3] are computed as the code does.      *)
(***************************************************************************)
EXTENDS Integers, Sequences, FiniteSets, TLC

\* ---------------------------------------------------------------- bounds
MaxArgs == 4
MaxPathLen == 6
MaxCalls == 2
NumProcs == 2

Procs == 1..NumProcs

\* ------------------------------------------------------ string constants
None == <<"<None>">>
NoFile == <<"<absent>">>
Dir == <<"<dir>">>

TMP_FILE_NAME ==
    <<"m","d","t","o","p","d","f","_","t","m","p","_","f","i","l","e",
      ".","h","t","m","l">>
DEFAULT_COLORSCHEME == <<"d","r","a","c","u","l","a">>
MONOKAI == <<"m","o","n","o","k","a","i">>
MD_SUFFIX == <<".","m","d">>
PDF_SUFFIX == <<".","p","d","f">>

PROG == <<"c","l","i">>
H_SHORT == <<"-","h">>
H_LONG == <<"-","-","h","e","l","p">>
V_SHORT == <<"-","v">>
V_LONG == <<"-","-","v","e","r","s","i","o","n">>
O_SHORT == <<"-","o">>
O_LONG == <<"-","-","o","u","t","p","u","t","-","f","i","l","e">>
NO_CSS == <<"-","-","n","o","-","c","s","s">>
COLORSCHEME == <<"-","-","c","o","l","o","r","s","c","h","e","m","e">>
LIST_COLORSCHEMES ==
    <<"-","-","l","i","s","t","-","c","o","l","o","r","s","c","h","e","m",
      "e","s">>

HelpAliases == {H_SHORT, H_LONG}
VersionAliases == {V_SHORT, V_LONG}
OutputAliases == {O_SHORT, O_LONG}

\* pygments.styles.get_all_styles(): the known colorscheme names (a sample
\* of the enumerated set, the default among them)
get_all_styles == {DEFAULT_COLORSCHEME, MONOKAI}

M_MD == <<"m",".","m","d">>
D_MD == <<"d",".","m","d">>
DIRNAME == <<"d">>

\* the candidate executables probed by find_chromium_name, in order
CHROMIUM == "chromium"
CHROMIUM_BROWSER == "chromium-browser"
Candidates == <<CHROMIUM, CHROMIUM_BROWSER>>

\* ----------------------------------------------------------- filesystem
\* A filesystem is a function from the paths that exist to Dir or to the
\* content of the file; every other path is absent.
Lookup(f, p) == IF p \in DOMAIN f THEN f[p] ELSE NoFile
isdir(f, p) == Lookup(f, p) = Dir
exists(f, p) == Lookup(f, p) # NoFile
WriteFile(f, p, c) == [q \in DOMAIN f \cup {p} |-> IF q = p THEN c ELSE f[q]]
RemoveFile(f, p) == [q \in DOMAIN f \ {p} |-> f[q]]

InitialFs == (M_MD :> <<"text of m.md">>) @@ (D_MD :> <<"text of d.md">>) @@ (DIRNAME :> Dir)

\* the HTML document md_to_html writes for markdown text c
Html(c, nocss, scheme) == <<"html", c, nocss, IF nocss THEN None ELSE scheme>>
\* the PDF the browser prints from what it read at the html path
Pdf(h) == <<"pdf", h>>

\* ------------------------------------------------------- pure functions
Max(a, b) == IF a > b THEN a ELSE b

\* Python s[-n:]
LastChars(s, n) == SubSeq(s, Max(1, Len(s) - n + 1), Len(s))
\* Python s[:-n]
DropLast(s, n) == SubSeq(s, 1, Max(0, Len(s) - n))

\* the suffix test looks at the last two characters only
DefaultOutputFile_NoDot(path) ==
    (IF LastChars(path, 2) = <<"m", "d">> THEN DropLast(path, 3) ELSE path)
        \o PDF_SUFFIX

\* cli lines 218-222: the output path when no output flag was given
DefaultOutputFile(path) ==
    (IF LastChars(path, 3) = MD_SUFFIX THEN DropLast(path, 3) ELSE path)
        \o PDF_SUFFIX

\* find_chromium_name: first candidate that shutil.which resolves, or ''
find_chromium_name(onpath) ==
    IF Candidates[1] \in onpath THEN Candidates[1]
    ELSE IF Candidates[2] \in onpath THEN Candidates[2]
    ELSE ""

\* ---------------------------------------------------------------- state
VARIABLES
    active,        \* the processes that run cli
    fs,            \* the working directory
    onpath,        \* executables resolvable on the search path
    args,          \* the list object each caller passes to cli
    tokens,        \* the contents of that list when cli was entered
    calls,         \* number of cli calls entered by each process
    pc,            \* position of each process; "done" after a return,
                   \* "raised" after an exception left cli
    command_name, help_flag, version_flag, file_path, output_file, no_css,
    colorscheme, chromium,
    ret,           \* return value of cli: 0 or 1, -1 while there is none
    err,           \* kind of the failure
    stderr,        \* lines written to the error stream by this call
    stdout,        \* what this call printed
    pipeline,      \* this call entered md_to_pdf
    launched,      \* this call launched the browser subprocess
    printed,       \* what the browser read at the html path
    results,       \* outcome of each finished call
    dirty          \* the environment changed since the first call began

locals == <<command_name, help_flag, version_flag, file_path, output_file,
            no_css, colorscheme, chromium>>
outs == <<ret, err, stderr, stdout, pipeline, launched, printed, results>>
vars == <<active, fs, onpath, args, tokens, calls, pc, locals, outs, dirty>>

ScanErrors == {"MissingArgument", "DuplicateFlag", "UnknownArgument",
               "TooManyArguments", "UnknownColorscheme"}

\* the token sequences of at most n tokens after the program name
RECURSIVE SeqsUpTo(_, _)
SeqsUpTo(S, n) ==
    IF n = 0 THEN {<<>>}
    ELSE LET shorter == SeqsUpTo(S, n - 1)
         IN  shorter \cup {Append(s, x) : s \in {t \in shorter : Len(t) = n - 1},
                                           x \in S}

\* the tokens the sequences are built from: each kind of flag, an existing
\* file, a directory, and two known colorscheme names, which are also names
\* of no file and, after another flag, unknown values
Tokens == {H_SHORT, V_LONG, O_SHORT, COLORSCHEME, LIST_COLORSCHEMES,
           M_MD, DIRNAME, DEFAULT_COLORSCHEME, MONOKAI}

\* the state before the first call: processes act, one list of argsets
\* each, in working directory f
InitVarsFs(act, argsets, f) ==
    /\ active = act
    /\ fs = f
    /\ onpath \in SUBSET {CHROMIUM, CHROMIUM_BROWSER}
    /\ \E a \in [act -> argsets] :
          args = [p \in Procs |-> IF p \in act THEN a[p] ELSE <<>>]
    /\ tokens = [p \in Procs |-> <<>>]
    /\ calls = [p \in Procs |-> 0]
    /\ pc = [p \in Procs |-> "idle"]
    /\ command_name = [p \in Procs |-> None]
    /\ help_flag = [p \in Procs |-> FALSE]
    /\ version_flag = [p \in Procs |-> FALSE]
    /\ file_path = [p \in Procs |-> None]
    /\ output_file = [p \in Procs |-> None]
    /\ no_css = [p \in Procs |-> FALSE]
    /\ colorscheme = [p \in Procs |-> None]
    /\ chromium = [p \in Procs |-> ""]
    /\ ret = [p \in Procs |-> -1]
    /\ err = [p \in Procs |-> ""]
    /\ stderr = [p \in Procs |-> 0]
    /\ stdout = [p \in Procs |-> ""]
    /\ pipeline = [p \in Procs |-> FALSE]
    /\ launched = [p \in Procs |-> FALSE]
    /\ printed = [p \in Procs |-> None]
    /\ results = [p \in Procs |-> <<>>]
    /\ dirty = [p \in Procs |-> FALSE]

InitVars(act, argsets) == InitVarsFs(act, argsets, InitialFs)

\* one sequential caller, every token sequence of at most MaxArgs tokens
Init == InitVars({1}, {<<PROG>> \o s : s \in SeqsUpTo(Tokens, MaxArgs)} \cup {<<>>})

\* ------------------------------------------------------------ cli: entry
Config(fp, of, nc, cs) ==
    [file_path |-> fp, output_file |-> of, no_css |-> nc, colorscheme |-> cs]

\* cli returns r after writing `lines` more diagnostic lines
Return(p, r, e, lines, out, cfg) ==
    /\ pc' = [pc EXCEPT ![p] = "done"]
    /\ ret' = [ret EXCEPT ![p] = r]
    /\ err' = [err EXCEPT ![p] = e]
    /\ stderr' = [stderr EXCEPT ![p] = @ + lines]
    /\ stdout' = [stdout EXCEPT ![p] = out]
    /\ results' = [results EXCEPT ![p] =
                      Append(@, [ret |-> r, err |-> e, config |-> cfg])]

\* an exception that no handler of cli catches leaves cli
Raise(p, e, lines) ==
    /\ pc' = [pc EXCEPT ![p] = "raised"]
    /\ ret' = [ret EXCEPT ![p] = -1]
    /\ err' = [err EXCEPT ![p] = e]
    /\ stderr' = [stderr EXCEPT ![p] = @ + lines]
    /\ stdout' = stdout
    /\ results' = [results EXCEPT ![p] =
                      Append(@, [ret |-> -1, err |-> e,
                                 config |-> Config(file_path[p], output_file[p],
                                                   no_css[p], colorscheme[p])])]

\* lines 157-167: the empty-list check, args.pop(0) and the locals
cli_entry(p) ==
    /\ p \in active
    /\ pc[p] \in {"idle", "done", "raised"}
    /\ calls[p] < MaxCalls
    /\ calls' = [calls EXCEPT ![p] = @ + 1]
    /\ tokens' = [tokens EXCEPT ![p] = args[p]]
    /\ dirty' = [dirty EXCEPT ![p] = IF calls[p] = 0 THEN FALSE ELSE @]
    /\ help_flag' = [help_flag EXCEPT ![p] = FALSE]
    /\ version_flag' = [version_flag EXCEPT ![p] = FALSE]
    /\ file_path' = [file_path EXCEPT ![p] = None]
    /\ output_file' = [output_file EXCEPT ![p] = None]
    /\ no_css' = [no_css EXCEPT ![p] = FALSE]
    /\ colorscheme' = [colorscheme EXCEPT ![p] = None]
    /\ chromium' = [chromium EXCEPT ![p] = ""]
    /\ pipeline' = [pipeline EXCEPT ![p] = FALSE]
    /\ launched' = [launched EXCEPT ![p] = FALSE]
    /\ printed' = [printed EXCEPT ![p] = None]
    /\ IF args[p] = <<>>
       THEN /\ command_name' = [command_name EXCEPT ![p] = None]
            /\ args' = args
            /\ pc' = [pc EXCEPT ![p] = "done"]
            /\ ret' = [ret EXCEPT ![p] = 1]
            /\ err' = [err EXCEPT ![p] = "NoCommandName"]
            /\ stderr' = [stderr EXCEPT ![p] = 1]
            /\ stdout' = [stdout EXCEPT ![p] = ""]
            /\ results' = [results EXCEPT ![p] =
                   Append(@, [ret |-> 1, err |-> "NoCommandName",
                              config |-> Config(None, None, FALSE, None)])]
       ELSE /\ command_name' = [command_name EXCEPT ![p] = Head(args[p])]
            /\ args' = [args EXCEPT ![p] = Tail(@)]
            /\ pc' = [pc EXCEPT ![p] = "scan"]
            /\ ret' = [ret EXCEPT ![p] = -1]
            /\ err' = [err EXCEPT ![p] = ""]
            /\ stderr' = [stderr EXCEPT ![p] = 0]
            /\ stdout' = [stdout EXCEPT ![p] = ""]
            /\ results' = results
    /\ UNCHANGED <<active, fs, onpath>>

\* a later output flag replaces the earlier output file
ScanCase_NoDuplicateCheck(arg, rest, of, fp) ==
    IF arg \in HelpAliases THEN "help"
    ELSE IF arg \in VersionAliases THEN "version"
    ELSE IF arg \in OutputAliases
    THEN IF rest = <<>> THEN "MissingArgument" ELSE "output_file"
    ELSE IF arg = NO_CSS THEN "no_css"
    ELSE IF arg = COLORSCHEME
    THEN IF rest = <<>> THEN "MissingArgument"
         ELSE IF Head(rest) \notin get_all_styles THEN "UnknownColorscheme"
         ELSE "colorscheme"
    ELSE IF arg # <<>> /\ arg[1] = "-" THEN "UnknownArgument"
    ELSE IF fp # None THEN "TooManyArguments"
    ELSE "file_path"

\* a later positional token replaces the earlier input file
ScanCase_NoTooManyCheck(arg, rest, of, fp) ==
    IF arg \in HelpAliases THEN "help"
    ELSE IF arg \in VersionAliases THEN "version"
    ELSE IF arg \in OutputAliases
    THEN IF rest = <<>> THEN "MissingArgument"
         ELSE IF of # None THEN "DuplicateFlag"
         ELSE "output_file"
    ELSE IF arg = NO_CSS THEN "no_css"
    ELSE IF arg = COLORSCHEME
    THEN IF rest = <<>> THEN "MissingArgument"
         ELSE IF Head(rest) \notin get_all_styles THEN "UnknownColorscheme"
         ELSE "colorscheme"
    ELSE IF arg # <<>> /\ arg[1] = "-" THEN "UnknownArgument"
    ELSE "file_path"

\* lines 171-204: the case of the match statement that token arg takes,
\* given the tokens after it and the output file and input file so far
ScanCase(arg, rest, of, fp) ==
    IF arg \in HelpAliases THEN "help"
    ELSE IF arg \in VersionAliases THEN "version"
    ELSE IF arg \in OutputAliases
    THEN IF rest = <<>> THEN "MissingArgument"
         ELSE IF of # None THEN "DuplicateFlag"
         ELSE "output_file"
    ELSE IF arg = NO_CSS THEN "no_css"
    ELSE IF arg = COLORSCHEME
    THEN IF rest = <<>> THEN "MissingArgument"
         ELSE IF Head(rest) \notin get_all_styles THEN "UnknownColorscheme"
         ELSE "colorscheme"
    ELSE IF arg # <<>> /\ arg[1] = "-" THEN "UnknownArgument"
    ELSE IF fp # None THEN "TooManyArguments"
    ELSE "file_path"

\* lines 169-204: one iteration of the while loop
cli_scan(p) ==
    /\ p \in active
    /\ pc[p] = "scan"
    /\ args[p] # <<>>
    /\ LET arg == Head(args[p])
           rest == Tail(args[p])
           case == ScanCase(arg, rest, output_file[p], file_path[p])
           \* the tokens the iteration pops after arg
           popped == IF case \in {"output_file", "colorscheme",
                                  "UnknownColorscheme"} THEN 1 ELSE 0
           value == IF rest = <<>> THEN None ELSE Head(rest)
           fp == IF case = "file_path" THEN arg ELSE file_path[p]
           of == IF case = "output_file" THEN value ELSE output_file[p]
           cs == IF case \in {"colorscheme", "UnknownColorscheme"}
                 THEN value ELSE colorscheme[p]
       IN  /\ args' = [args EXCEPT ![p] = SubSeq(rest, popped + 1, Len(rest))]
           /\ help_flag' = [help_flag EXCEPT ![p] = @ \/ case = "help"]
           /\ version_flag' = [version_flag EXCEPT ![p] = @ \/ case = "version"]
           /\ no_css' = [no_css EXCEPT ![p] = @ \/ case = "no_css"]
           /\ file_path' = [file_path EXCEPT ![p] = fp]
           /\ output_file' = [output_file EXCEPT ![p] = of]
           /\ colorscheme' = [colorscheme EXCEPT ![p] = cs]
           /\ IF case \in ScanErrors
              THEN Return(p, 1, case, 1, "", Config(fp, of, no_css[p], cs))
              ELSE UNCHANGED <<pc, ret, err, stderr, stdout, results>>
    /\ UNCHANGED <<active, fs, onpath, tokens, calls, command_name, chromium,
                   pipeline, launched, printed, dirty>>

\* the input file is checked before the help and version flags
ValidateCase_FileFirst(help, version, fp, f, found) ==
    IF fp = None THEN "MissingInput"
    ELSE IF help THEN "usage"
    ELSE IF version THEN "version"
    ELSE IF isdir(f, fp) THEN "IsDirectory"
    ELSE IF ~exists(f, fp) THEN "NotFound"
    ELSE IF found = "" THEN "ExecutableNotFound"
    ELSE "md_to_pdf"

\* lines 206-239: the first check that ends cli after the loop, or
\* "md_to_pdf" when the pipeline is entered
ValidateCase(help, version, fp, f, found) ==
    IF help THEN "usage"
    ELSE IF version THEN "version"
    ELSE IF fp = None THEN "MissingInput"
    ELSE IF isdir(f, fp) THEN "IsDirectory"
    ELSE IF ~exists(f, fp) THEN "NotFound"
    ELSE IF found = "" THEN "ExecutableNotFound"
    ELSE "md_to_pdf"

\* lines 206-239: after the loop, up to the call of md_to_pdf
cli_validate(p) ==
    /\ p \in active
    /\ pc[p] = "scan"
    /\ args[p] = <<>>
    /\ LET found == find_chromium_name(onpath)
           case == ValidateCase(help_flag[p], version_flag[p], file_path[p],
                                fs, found)
           \* lines 218-222 are reached
           named == case \notin {"usage", "version", "MissingInput"}
           \* lines 233-236 are reached
           looked == case \in {"ExecutableNotFound", "md_to_pdf"}
           of == IF named /\ output_file[p] = None
                 THEN DefaultOutputFile(file_path[p]) ELSE output_file[p]
           cs == IF looked /\ colorscheme[p] = None
                 THEN DEFAULT_COLORSCHEME ELSE colorscheme[p]
           cfg == Config(file_path[p], of, no_css[p], cs)
       IN  /\ output_file' = [output_file EXCEPT ![p] = of]
           /\ colorscheme' = [colorscheme EXCEPT ![p] = cs]
           /\ chromium' = [chromium EXCEPT ![p] = IF looked THEN found ELSE @]
           /\ pipeline' = [pipeline EXCEPT ![p] = case = "md_to_pdf"]
           /\ IF case = "md_to_pdf"
              THEN /\ pc' = [pc EXCEPT ![p] = "md_to_html"]
                   /\ UNCHANGED <<ret, err, stderr, stdout, results>>
              ELSE IF case \in {"usage", "version"}
              THEN Return(p, 0, "", 0, case, cfg)
              ELSE Return(p, 1, case, 1, "", cfg)
    /\ UNCHANGED <<active, fs, onpath, args, tokens, calls, command_name,
                   help_flag, version_flag, file_path, no_css, launched,
                   printed, dirty>>

\* the environment changed: every process sees a different environment
Touch == dirty' = [p \in Procs |-> TRUE]

\* lines 42-84, called at line 126 with html_file_path = TMP_FILE_NAME
md_to_html(p) ==
    /\ p \in active
    /\ pc[p] = "md_to_html"
    /\ LET text == Lookup(fs, file_path[p])
           cfg == Config(file_path[p], output_file[p], no_css[p], colorscheme[p])
       IN  \/ \* open(markdown_file_path) or the read raises
              /\ Raise(p, "RendererFailed", 0)
              /\ UNCHANGED <<fs, dirty>>
           \/ \* the file is read and open(html_file_path, 'w') raises
              /\ text \notin {NoFile, Dir}
              /\ isdir(fs, TMP_FILE_NAME)
              /\ Raise(p, "RendererFailed", 0)
              /\ UNCHANGED <<fs, dirty>>
           \/ \* the document is written
              /\ text \notin {NoFile, Dir}
              /\ ~isdir(fs, TMP_FILE_NAME)
              /\ fs' = WriteFile(fs, TMP_FILE_NAME,
                                 Html(text, no_css[p], colorscheme[p]))
              /\ Touch
              /\ pc' = [pc EXCEPT ![p] = "html_to_pdf"]
              /\ UNCHANGED <<ret, err, stderr, stdout, results>>
    /\ UNCHANGED <<active, onpath, args, tokens, calls, locals, pipeline,
                   launched, printed>>

\* lines 97-114, called at line 127, and the handler of lines 244-246
html_to_pdf(p) ==
    /\ p \in active
    /\ pc[p] = "html_to_pdf"
    /\ LET found == find_chromium_name(onpath)
           html == Lookup(fs, TMP_FILE_NAME)
           cfg == Config(file_path[p], output_file[p], no_css[p], colorscheme[p])
       IN  /\ chromium' = [chromium EXCEPT ![p] = found]
           /\ IF found = ""
              THEN \* error() is called and subprocess.run(['', ...]) raises
                   \* an OSError, which is no CalledProcessError
                   /\ Raise(p, "ExecutableNotFound", 1)
                   /\ UNCHANGED <<fs, dirty, launched, printed>>
              ELSE /\ launched' = [launched EXCEPT ![p] = TRUE]
                   /\ printed' = [printed EXCEPT ![p] = html]
                   /\ \/ \* the browser exits with 0 and has written the pdf
                         /\ ~isdir(fs, output_file[p])
                         /\ fs' = WriteFile(fs, output_file[p], Pdf(html))
                         /\ Touch
                         /\ pc' = [pc EXCEPT ![p] = "remove"]
                         /\ UNCHANGED <<ret, err, stderr, stdout, results>>
                      \/ \* the browser exits with 0 and has written nothing
                         /\ isdir(fs, output_file[p])
                         /\ pc' = [pc EXCEPT ![p] = "remove"]
                         /\ UNCHANGED <<fs, dirty, ret, err, stderr, stdout,
                                        results>>
                      \/ \* non-zero exit: CalledProcessError, caught by cli
                         /\ Return(p, 1, "ConversionFailed", 1, "", cfg)
                         /\ UNCHANGED <<fs, dirty>>
    /\ UNCHANGED <<active, onpath, args, tokens, calls, command_name,
                   help_flag, version_flag, file_path, output_file, no_css,
                   colorscheme, pipeline>>

\* line 128, os.remove(TMP_FILE_NAME), and the return of line 248
remove(p) ==
    /\ p \in active
    /\ pc[p] = "remove"
    /\ LET cfg == Config(file_path[p], output_file[p], no_css[p], colorscheme[p])
       IN  IF Lookup(fs, TMP_FILE_NAME) \in {NoFile, Dir}
           THEN \* FileNotFoundError or IsADirectoryError
                /\ Raise(p, "RemoveFailed", 0)
                /\ UNCHANGED <<fs, dirty>>
           ELSE /\ fs' = RemoveFile(fs, TMP_FILE_NAME)
                /\ Touch
                /\ Return(p, 0, "", 0, "", cfg)
    /\ UNCHANGED <<active, onpath, args, tokens, calls, locals, pipeline,
                   launched, printed>>

\* An executable appears on or disappears from the search path between
\* the lookup of cli (line 236) and the lookup of html_to_pdf (line 106).
\* A change at any other moment is a different initial search path.
EnvChange ==
    /\ \E p \in active : pc[p] \in {"md_to_html", "html_to_pdf"}
    /\ \E s \in SUBSET {CHROMIUM, CHROMIUM_BROWSER} :
          /\ s # onpath
          /\ onpath' = s
    /\ Touch
    /\ UNCHANGED <<active, fs, args, tokens, calls, pc, locals, outs>>

Next ==
    \/ EnvChange
    \/ \E p \in Procs : cli_entry(p)
    \/ \E p \in Procs : cli_scan(p)
    \/ \E p \in Procs : cli_validate(p)
    \/ \E p \in Procs : md_to_html(p)
    \/ \E p \in Procs : html_to_pdf(p)
    \/ \E p \in Procs : remove(p)

Spec == Init /\ [][Next]_vars

\* every path of at most MaxPathLen characters over PathChars, alone or
\* with an output flag before or after it
PathChars == {".", "m", "d"}
OutputValues == {<<"o">>, M_MD}
InitOut ==
    InitVars({1},
        {<<PROG, path>> : path \in SeqsUpTo(PathChars, MaxPathLen)}
        \cup {<<PROG, path, O_SHORT, v>> :
                 path \in SeqsUpTo(PathChars, MaxPathLen), v \in OutputValues}
        \cup {<<PROG, O_LONG, v, path>> :
                 path \in SeqsUpTo(PathChars, MaxPathLen), v \in OutputValues})

SpecOut == InitOut /\ [][Next]_vars

\* NumProcs concurrent invocations in one working directory
InitConc ==
    InitVars(Procs, {<<PROG, M_MD>>, <<PROG, D_MD>>, <<PROG, NO_CSS, M_MD>>})

SpecConc == InitConc /\ [][Next]_vars

\* A working directory where an earlier run left its temporary file behind
\* (md_to_pdf removes it only after a successful print), and one sequential
\* caller whose input path or output path may be that file's name.
InitialFsTmp == InitialFs @@ (TMP_FILE_NAME :> <<"left behind">>)
TmpTokens == {O_SHORT, TMP_FILE_NAME, M_MD, DIRNAME, LIST_COLORSCHEMES}
InitTmp ==
    InitVarsFs({1}, {<<PROG>> \o s : s \in SeqsUpTo(TmpTokens, MaxArgs)},
               InitialFsTmp)

SpecTmp == InitTmp /\ [][Next]_vars

\* ------------------------------------------------- vocabulary of the claims
TypeOK == \A p \in Procs : ret[p] \in {-1, 0, 1}

Ended(p) == pc[p] \in {"done", "raised"}

\* the tokens after the program name that the current call of p was given
UserTokens(p) == IF tokens[p] = <<>> THEN <<>> ELSE Tail(tokens[p])

\* the role of each token: a flag ("flag"), the value a value-taking flag
\* consumes ("value"), or a positional token
RECURSIVE Roles(_)
Roles(t) ==
    IF t = <<>> THEN <<>>
    ELSE IF Head(t) \in OutputAliases \cup {COLORSCHEME} /\ Len(t) >= 2
    THEN <<"flag", "value">> \o Roles(Tail(Tail(t)))
    ELSE IF Head(t) # <<>> /\ Head(t)[1] = "-"
    THEN <<"flag">> \o Roles(Tail(t))
    ELSE <<"positional">> \o Roles(Tail(t))

Positionals(t) == {i \in 1..Len(t) : Roles(t)[i] = "positional"}
FlagsIn(t, aliases) ==
    {i \in 1..Len(t) : Roles(t)[i] = "flag" /\ t[i] \in aliases}
\* the occurrences of a value-taking flag that have a value
ValuedFlags(t, aliases) == {i \in FlagsIn(t, aliases) : i < Len(t)}
Min(S) == CHOOSE x \in S : \A y \in S : x <= y
SecondPositional(t) == Min(Positionals(t) \ {Min(Positionals(t))})
Contains(t, aliases) == \E i \in 1..Len(t) : t[i] \in aliases
\* the number of tokens the scan of the current call has popped
Consumed(p) == Len(UserTokens(p)) - Len(args[p])

\* the call of p got past the input-file check of line 214
Resolved(p) ==
    /\ pc[p] \notin {"idle", "scan"}
    /\ err[p] \notin ScanErrors \cup {"NoCommandName", "MissingInput"}
    /\ stdout[p] = ""

EndsWithMd(s) ==
    /\ Len(s) >= 3
    /\ s[Len(s) - 2] = "."
    /\ s[Len(s) - 1] = "m"
    /\ s[Len(s)] = "d"

\* ------------------------------------------------------------------ C1
\* C1: every invocation that reached md_to_pdf ends with no temporary HTML
\* file in the working directory, whether it succeeded, the Renderer failed
\* or the Printer failed.
C1_TmpFileRemoved ==
    \A p \in Procs :
        (Ended(p) /\ pipeline[p]) => ~exists(fs, TMP_FILE_NAME)

\* ------------------------------------------------------------------ C2
\* C2 (as stated): a help or version alias anywhere among the tokens (not
\* the value of another flag) makes cli print usage or the version and
\* return 0, help winning over version, whatever other tokens accompany it.
C2_ShortCircuitAlwaysWins ==
    \A p \in Procs :
        (/\ Ended(p)
         /\ FlagsIn(UserTokens(p), HelpAliases \cup VersionAliases) # {})
        => /\ pc[p] = "done"
           /\ ret[p] = 0
           /\ stdout[p] = IF FlagsIn(UserTokens(p), HelpAliases) # {}
                          THEN "usage" ELSE "version"

\* C2 (amended): when the scan ends without a scan error and a help or
\* version alias stood in flag position, cli prints usage or the version,
\* writes no diagnostic, returns 0 and never enters the pipeline, whatever
\* the input file is (missing, nonexistent, a directory) and whether or not
\* a browser is on the search path; help wins over version.
C2_ShortCircuitAfterScan ==
    \A p \in Procs :
        LET t == UserTokens(p)
        IN  (/\ Ended(p)
             /\ err[p] \notin ScanErrors
             /\ FlagsIn(t, HelpAliases \cup VersionAliases) # {})
            => /\ pc[p] = "done"
               /\ ret[p] = 0
               /\ stderr[p] = 0
               /\ ~pipeline[p]
               /\ stdout[p] = IF FlagsIn(t, HelpAliases) # {}
                              THEN "usage" ELSE "version"

\* help and version both given, no input file, a nonexistent output value
C2_Witness ==
    \E p \in Procs :
        /\ pc[p] = "done"
        /\ FlagsIn(UserTokens(p), HelpAliases) # {}
        /\ FlagsIn(UserTokens(p), VersionAliases) # {}
        /\ file_path[p] = None
        /\ stdout[p] = "usage"
        /\ ret[p] = 0

\* ------------------------------------------------------------------ C3
\* C3 (as stated): when the output flag occurs twice with a value, or the
\* colorscheme flag occurs twice with a known value, resolution fails with
\* DuplicateFlag and returns 1.
C3_DuplicateIsError ==
    \A p \in Procs :
        LET t == UserTokens(p)
            known == {i \in ValuedFlags(t, {COLORSCHEME}) :
                        t[i + 1] \in get_all_styles}
        IN  (/\ Ended(p)
             /\ \/ Cardinality(ValuedFlags(t, OutputAliases)) >= 2
                \/ Cardinality(known) >= 2)
            => (ret[p] = 1 /\ err[p] = "DuplicateFlag")

\* C3 (amended): when the scan reaches an output flag that has a value while
\* an output file is already set, cli fails with DuplicateFlag, returns 1
\* and keeps the first value; when it reaches a colorscheme flag with a
\* known value while a colorscheme is already set, that is no error and the
\* later value replaces the earlier one.
C3_DuplicateOutputIsError ==
    [][\A p \in Procs :
         (pc[p] = "scan" /\ args[p] # <<>> /\ args'[p] # args[p]
          /\ Len(args[p]) >= 2)
         => /\ (Head(args[p]) \in OutputAliases /\ output_file[p] # None)
               => /\ pc'[p] = "done"
                  /\ ret'[p] = 1
                  /\ err'[p] = "DuplicateFlag"
                  /\ output_file'[p] = output_file[p]
            /\ (/\ Head(args[p]) = COLORSCHEME
                /\ colorscheme[p] # None
                /\ args[p][2] \in get_all_styles)
               => /\ pc'[p] = "scan"
                  /\ colorscheme'[p] = args[p][2]]_vars

\* the second output flag was refused and the first value is still there
C3_Witness ==
    \E p \in Procs :
        LET t == UserTokens(p)
        IN  /\ pc[p] = "done"
            /\ err[p] = "DuplicateFlag"
            /\ Cardinality(ValuedFlags(t, OutputAliases)) >= 2
            /\ output_file[p] = t[Min(ValuedFlags(t, OutputAliases)) + 1]
            /\ output_file[p] # t[Consumed(p) + 1]

\* ------------------------------------------------------------------ C4
\* C4 (as stated): every token sequence with two positional tokens fails
\* with TooManyArguments, whatever the other tokens are.
C4_TwoPositionalsAlwaysTooMany ==
    \A p \in Procs :
        (Ended(p) /\ Cardinality(Positionals(UserTokens(p))) >= 2)
        => (ret[p] = 1 /\ err[p] = "TooManyArguments")

\* C4 (amended): every token sequence with two positional tokens makes cli
\* return 1 during the scan: with TooManyArguments at the second positional
\* token, whatever follows it, unless a token before the second positional
\* has already failed the scan with UnknownArgument, DuplicateFlag or
\* UnknownColorscheme.
C4_TwoPositionalsFailScan ==
    \A p \in Procs :
        LET t == UserTokens(p)
        IN  (Ended(p) /\ Cardinality(Positionals(t)) >= 2)
            => /\ pc[p] = "done"
               /\ ret[p] = 1
               /\ stderr[p] = 1
               /\ \/ /\ err[p] = "TooManyArguments"
                     /\ Consumed(p) = SecondPositional(t)
                  \/ /\ err[p] \in {"UnknownArgument", "DuplicateFlag",
                                    "UnknownColorscheme"}
                     /\ Consumed(p) < SecondPositional(t)

\* TooManyArguments with flags before and tokens left after the second
\* positional
C4_Witness ==
    \E p \in Procs :
        LET t == UserTokens(p)
        IN  /\ pc[p] = "done"
            /\ err[p] = "TooManyArguments"
            /\ Cardinality(Positionals(t)) >= 2
            /\ Roles(t)[1] = "flag"
            /\ args[p] # <<>>

\* ------------------------------------------------------------------ C5
\* C5: without an output flag the output path is the input path with one
\* trailing ".md" removed, if there is one, and ".pdf" appended; an input
\* path that does not end in ".md" is kept whole; with an output flag the
\* output path is the value of the flag.
C5_OutputPath ==
    \A p \in Procs :
        LET t == UserTokens(p)
            given == ValuedFlags(t, OutputAliases)
        IN  Resolved(p) =>
              /\ Positionals(t) # {}
              /\ file_path[p] = t[Min(Positionals(t))]
              /\ IF given # {}
                 THEN output_file[p] = t[Min(given) + 1]
                 ELSE \E n \in 0..Len(file_path[p]) :
                        LET stem == SubSeq(file_path[p], 1, n)
                        IN  /\ output_file[p] = stem \o PDF_SUFFIX
                            /\ IF EndsWithMd(file_path[p])
                               THEN file_path[p] = stem \o MD_SUFFIX
                               ELSE file_path[p] = stem

\* ".md.md" was resolved to ".md.pdf"
C5_Witness ==
    \E p \in Procs :
        /\ Resolved(p)
        /\ file_path[p] = MD_SUFFIX \o MD_SUFFIX
        /\ ValuedFlags(UserTokens(p), OutputAliases) = {}
        /\ output_file[p] = MD_SUFFIX \o PDF_SUFFIX

\* ------------------------------------------------------------------ C6
\* C6: when the resolved output path names an existing directory (and the
\* input file exists), cli fails with IsDirectory and returns 1 before the
\* pipeline is entered: no temporary file, no Printer run.
C6_OutputDirectoryRejected ==
    \A p \in Procs :
        (/\ Resolved(p)
         /\ err[p] # "NotFound"
         /\ isdir(fs, output_file[p]))
        => /\ pc[p] = "done"
           /\ ret[p] = 1
           /\ err[p] = "IsDirectory"
           /\ ~pipeline[p]
           /\ ~launched[p]

\* ------------------------------------------------------------------ C7
\* C7: every failure the taxonomy names ends with cli returning 1 after
\* exactly one diagnostic line and no uncaught exception; when no browser
\* is resolvable the Printer subprocess is not launched.
ClaimedFailures ==
    ScanErrors \cup {"MissingInput", "NotFound", "IsDirectory",
                     "ExecutableNotFound", "ConversionFailed"}
C7_FailureReturnsOne ==
    \A p \in Procs :
        (Ended(p) /\ err[p] \in ClaimedFailures)
        => /\ pc[p] = "done"
           /\ ret[p] = 1
           /\ stderr[p] = 1
           /\ (err[p] = "ExecutableNotFound" => ~launched[p])

\* ------------------------------------------------------------------ C8
\* C8: a list-colorschemes token, with no help or version alias, makes cli
\* print the known colorscheme names and return 0 without an input file.
C8_ListColorschemes ==
    \A p \in Procs :
        LET t == UserTokens(p)
        IN  (/\ Ended(p)
             /\ Contains(t, {LIST_COLORSCHEMES})
             /\ ~Contains(t, HelpAliases \cup VersionAliases))
            => (pc[p] = "done" /\ ret[p] = 0 /\ stdout[p] = "colorschemes")

\* ------------------------------------------------------------------ C9
\* C9: calling cli twice with the same list, the filesystem and the search
\* path unchanged, gives the same return value, error kind and resolved
\* configuration both times.
C9_Idempotent ==
    \A p \in Procs :
        (Len(results[p]) >= 2 /\ ~dirty[p]) => results[p][1] = results[p][2]

\* ----------------------------------------------------------------- C10
\* C10: with concurrent invocations in one working directory, the Printer
\* of each invocation reads the HTML rendered from that invocation's own
\* input, and no invocation fails because its temporary file is gone.
C10_OwnTemporaryFile ==
    \A p \in Procs :
        /\ launched[p] =>
             printed[p] = Html(Lookup(InitialFs, file_path[p]), no_css[p],
                               colorscheme[p])
        /\ err[p] # "RemoveFailed"

\* ----------------------------------------------------------------- C11
\* C11: an invocation that fails before the Printer is launched (argument
\* or validation failure, executable not found, Renderer failure) leaves
\* the resolved output path as it was when the invocation began, also when
\* the output path or the input path is the temporary file's name.
C11_DestinationUntouched ==
    \A p \in Procs :
        (/\ Ended(p)
         /\ calls[p] = 1
         /\ ret[p] # 0
         /\ ~launched[p]
         /\ output_file[p] # None)
        => Lookup(fs, output_file[p]) = Lookup(InitialFsTmp, output_file[p])

====
